---- MODULE Spec2Model ----
(***************************************************************************)
(* The GraphQL route of src/routes/graphql/index.ts: six DataLoader        *)
(* instances built in the plugin body, the resolvers that call them, the   *)
(* mutation resolvers that write to the data store, and the POST handler.  *)
(*                                                                         *)
(* Requests are served one after the other.  One request runs as Node runs *)
(* it: a synchronous pass of resolver calls (ResolveLoad), the loaders'    *)
(* scheduled dispatches (DispatchBatches), then the data store's answers   *)
(* in any order (BatchReturn, DirectReturn), each followed by a new pass.  *)
(***************************************************************************)
EXTENDS Integers, Sequences, FiniteSets, TLC

\* ------------------------------------------------------------- bounds
MaxRequests == 3
MaxQueries == 2
MaxMutations == 1
MaxFailures == 1

\* ---------------------------------------------------------- constants
DepthLimit == 5

\* ----------------------------------------------------------- universe
UserIds == {"a", "b", "c", "d"}
MissingId == "z"
PostIds == {"p1", "p2"}
MemberTypeIdEnum == {"basic", "business"}
\* The value of args.id when the query gives user no id: undefined (or null).
NullKey == "null"
AllKeys == UserIds \cup {MissingId, NullKey} \cup MemberTypeIdEnum

Loaders == {"userLoader", "postLoader", "profileLoader", "memberTypeLoader",
            "userSubscribedToLoader", "subscribedToUserLoader"}
PrimaryKeyLoaders == {"userLoader", "profileLoader", "memberTypeLoader"}
GroupLoaders == {"postLoader", "userSubscribedToLoader", "subscribedToUserLoader"}

VARIABLES
  users,      \* prisma.user rows
  posts,      \* prisma.post rows
  profiles,   \* prisma.profile rows
  subs,       \* prisma.subscribersOnAuthors rows
  cache,      \* each loader's cache map: key -> future (0: no entry)
  futures,    \* every promise a load() created
  batches,    \* every batch a loader opened
  tasks,      \* resolver calls of the current synchronous pass
  waiting,    \* resolvers suspended at an await
  loads,      \* history: every load() call
  dbLog,      \* history: every data store operation
  resp,       \* the fields of the response being built
  req,        \* requests received so far
  muts,       \* mutation requests among them
  tick,       \* turns of the event loop so far
  phase,      \* "idle" | "exec"
  failures,   \* data store failures so far
  verrs       \* validationErrors of the last request

vars == <<users, posts, profiles, subs, cache, futures, batches, tasks,
          waiting, loads, dbLog, resp, req, muts, tick, phase, failures, verrs>>

storeVars == <<users, posts, profiles, subs>>

\* ------------------------------------------------------------ helpers
Range(s) == {s[i] : i \in 1..Len(s)}

RECURSIVE Flatten(_)
Flatten(ss) == IF ss = <<>> THEN <<>> ELSE Head(ss) \o Flatten(Tail(ss))

\* Every order in which a query may return the rows of a table.
Perms(S) ==
  {s \in [1..Cardinality(S) -> S] : \A x \in S : \E i \in 1..Cardinality(S) : s[i] = x}

\* JavaScript values a loader resolves to.
Undefined == [kind |-> "undefined"]
Null == [kind |-> "null"]
Pending == [kind |-> "pending"]
Rejected == [kind |-> "error"]
LoadTypeError == [kind |-> "error", name |-> "TypeError"]
Row(r) == [kind |-> "row", row |-> r]
List(rs) == [kind |-> "list", rows |-> rs]

\* What a field's value is once graphql has completed what its resolver
\* returned: undefined and null are both null.
Completed(val) == IF val = Undefined THEN Null ELSE val

\* Array.prototype.find: the first element that matches, or undefined.
RECURSIVE Find(_, _, _)
Find(rows, field, key) ==
  IF rows = <<>> THEN Undefined
  ELSE IF Head(rows)[field] = key THEN Row(Head(rows))
  ELSE Find(Tail(rows), field, key)

\* Array.prototype.filter on one column.
Filter(rows, field, key) == List(SelectSeq(rows, LAMBDA r : r[field] = key))

\* ------------------------------------------------------ the data store
\* The id the data store gives the profile it creates for a user.
ProfileId(userId) ==
  CASE userId = "a" -> "fa"
    [] userId = "b" -> "fb"
    [] userId = "c" -> "fc"
    [] OTHER -> "fd"

MemberTypes == {[id |-> m] : m \in MemberTypeIdEnum}

\* prisma.user.findMany({ include: { subscribedToUser: true, userSubscribedTo: true } }):
\* each user with the subscription rows in which it is the author
\* (subscribedToUser) and those in which it is the subscriber (userSubscribedTo).
UsersWithSubscriptions ==
  {[id |-> u.id, name |-> u.name,
    subscribedToUser |-> {s \in subs : s.authorId = u.id},
    userSubscribedTo |-> {s \in subs : s.subscriberId = u.id}] : u \in users}

\* The rows the one findMany of a loader's batch function reads.
TableRows(l) ==
  CASE l = "userLoader" -> users
    [] l = "postLoader" -> posts
    [] l = "profileLoader" -> profiles
    [] l = "memberTypeLoader" -> MemberTypes
    [] OTHER -> UsersWithSubscriptions

TableOf(l) ==
  CASE l = "userLoader" -> "user"
    [] l = "postLoader" -> "post"
    [] l = "profileLoader" -> "profile"
    [] l = "memberTypeLoader" -> "memberType"
    [] OTHER -> "userWithSubscriptions"

\* ------------------------------------------------ the batch functions
\* Mutant: the rows of the query handed back in the order the store gave them.
userBatchPositional(keys, rows) ==
  [i \in 1..Len(keys) |-> IF i <= Len(rows) THEN Row(rows[i]) ELSE Undefined]

\* Mutant: only the rows that were found, so a missing key shortens the result.
userBatchFoundOnly(keys, rows) ==
  LET found == SelectSeq(rows, LAMBDA r : r.id \in Range(keys))
  IN  [i \in 1..Len(found) |-> Row(found[i])]

\* Mutant: a key without rows gets no entry in the grouping.
postBatchAbsent(keys, rows) ==
  LET acc == [k \in Range(keys) |->
                IF \E i \in 1..Len(rows) : rows[i].authorId = k
                  THEN Filter(rows, "authorId", k) ELSE Undefined]
  IN  [i \in 1..Len(keys) |-> acc[keys[i]]]

\* keys.reduce(...) builds an object keyed by the batch keys; keys.map reads it.
userBatch(keys, rows) ==
  LET acc == [k \in Range(keys) |-> Find(rows, "id", k)]
  IN  [i \in 1..Len(keys) |-> acc[keys[i]]]

postBatch(keys, rows) ==
  LET acc == [k \in Range(keys) |-> Filter(rows, "authorId", k)]
  IN  [i \in 1..Len(keys) |-> acc[keys[i]]]

\* Mutant: the profiles matched on their own id.
profileBatchById(keys, rows) ==
  LET acc == [k \in Range(keys) |-> Find(rows, "id", k)]
  IN  [i \in 1..Len(keys) |-> acc[keys[i]]]

profileBatch(keys, rows) ==
  LET acc == [k \in Range(keys) |-> Find(rows, "userId", k)]
  IN  [i \in 1..Len(keys) |-> acc[keys[i]]]

memberTypeBatch(keys, rows) ==
  LET acc == [k \in Range(keys) |-> Find(rows, "id", k)]
  IN  [i \in 1..Len(keys) |-> acc[keys[i]]]

userSubscribedToBatch(keys, rows) ==
  LET acc == [k \in Range(keys) |->
                List(SelectSeq(rows, LAMBDA u :
                       \E sub \in u.subscribedToUser : sub.subscriberId = k))]
  IN  [i \in 1..Len(keys) |-> acc[keys[i]]]

subscribedToUserBatch(keys, rows) ==
  LET acc == [k \in Range(keys) |->
                List(SelectSeq(rows, LAMBDA u :
                       \E sub \in u.userSubscribedTo : sub.authorId = k))]
  IN  [i \in 1..Len(keys) |-> acc[keys[i]]]

BatchValues(l, keys, rows) ==
  CASE l = "userLoader" -> userBatch(keys, rows)
    [] l = "postLoader" -> postBatch(keys, rows)
    [] l = "profileLoader" -> profileBatch(keys, rows)
    [] l = "memberTypeLoader" -> memberTypeBatch(keys, rows)
    [] l = "userSubscribedToLoader" -> userSubscribedToBatch(keys, rows)
    [] OTHER -> subscribedToUserBatch(keys, rows)

\* Mutant: the query moved into the reduce, one per key.
BatchQueriesPerKey(l, keys) ==
  [i \in 1..Len(keys) |-> [op |-> "findMany", table |-> TableOf(l)]]

\* The data store operations one call of a batch function issues: the single
\* findMany at its top, before the reduce.
BatchQueries(l, keys) == <<[op |-> "findMany", table |-> TableOf(l)]>>

\* Mutant: the batch function catches the query's error and answers undefined
\* for every key.
BatchCallSwallow(l, keys, res) ==
  IF res.ok THEN [ok |-> TRUE, values |-> BatchValues(l, keys, res.rows)]
  ELSE [ok |-> TRUE, values |-> [i \in 1..Len(keys) |-> Undefined]]

\* One call of a batch function, given the answer `res` of its findMany.  The
\* functions are async and catch nothing: a rejected findMany rejects the call.
BatchCall(l, keys, res) ==
  IF res.ok THEN [ok |-> TRUE, values |-> BatchValues(l, keys, res.rows)]
  ELSE [ok |-> FALSE, values |-> <<>>]

\* Mutant: new DataLoader(batchFn, { cache: false }).
LoaderOptionsNoCache == [cache |-> FALSE, batch |-> TRUE]

\* new DataLoader(batchFn): no options argument, so caching and batching are on.
LoaderOptions == [cache |-> TRUE, batch |-> TRUE]

\* Mutant: load() takes whatever it is given.
ValidKeyAny(k) == TRUE

\* load(key) begins by throwing a TypeError when key is null or undefined;
\* every other value is taken as a key.
ValidKey(k) == k # NullKey

\* -------------------------------------------------------- the schema
\* field -> the loader its resolver calls
FieldLoader(f) ==
  CASE f = "user" -> "userLoader"
    [] f = "profile" -> "profileLoader"
    [] f = "posts" -> "postLoader"
    [] f = "memberType" -> "memberTypeLoader"
    [] f = "userSubscribedTo" -> "userSubscribedToLoader"
    [] OTHER -> "subscribedToUserLoader"

\* The key a resolver passes to load(): parent.memberTypeId for
\* ProfileType.memberType, parent.id for the UserType fields.
ResolverKey(f, parent) == IF f = "memberType" THEN parent.memberTypeId ELSE parent.id

\* The selection sets the requests of the model use, by name: the
\* loader-backed fields selected, each with the selection below it.
SelFields(s) ==
  CASE s = "pp" -> <<[f |-> "profile", sub |-> "id"], [f |-> "posts", sub |-> "id"]>>
    [] s = "pm" -> <<[f |-> "profile", sub |-> "mt"]>>
    [] s = "mt" -> <<[f |-> "memberType", sub |-> "id"]>>
    [] s = "ss" -> <<[f |-> "userSubscribedTo", sub |-> "id"],
                     [f |-> "subscribedToUser", sub |-> "id"]>>
    [] s = "s2" -> <<[f |-> "userSubscribedTo", sub |-> "s1"]>>
    [] s = "s1" -> <<[f |-> "userSubscribedTo", sub |-> "id"]>>
    [] s = "sn" -> <<[f |-> "userSubscribedTo", sub |-> "s1"],
                     [f |-> "subscribedToUser", sub |-> "s1"]>>
    [] s = "d4" -> <<[f |-> "userSubscribedTo", sub |-> "d3"]>>
    [] s = "d3" -> <<[f |-> "userSubscribedTo", sub |-> "d2"]>>
    [] s = "d2" -> <<[f |-> "userSubscribedTo", sub |-> "s2"]>>
    [] OTHER -> <<>>

\* Depth of the query whose root field carries selection s, as
\* graphql-depth-limit counts it: a root field with scalar children has depth 1.
RECURSIVE SelDepth(_)
SelDepth(s) ==
  IF SelFields(s) = <<>> THEN 1
  ELSE 1 + SelDepth(SelFields(s)[1].sub)

\* The resolver calls below a resolved value: one per selected loader-backed
\* field of each object (a list value holds several objects).
ChildTasks(sub, val) ==
  LET objs == IF val.kind = "row" THEN <<val.row>>
              ELSE IF val.kind = "list" THEN val.rows ELSE <<>>
      fs == SelFields(sub)
  IN  Flatten([i \in 1..Len(objs) |->
         [j \in 1..Len(fs) |->
            [field |-> fs[j].f, key |-> ResolverKey(fs[j].f, objs[i]),
             sub |-> fs[j].sub]]])

\* ------------------------------------------------------- the requests
ThreeUsers == <<"a", "b", "c">>
RepeatedAndMissing == <<"a", "b", "a", MissingId>>
NoId == <<"a", NullKey, "b">>
OneUser == <<"b">>

\* query { u1: user(id: ..) { sel }  u2: user(id: ..) { sel } ... }
UserQuery(ids, sel) ==
  [roots |-> [i \in 1..Len(ids) |-> [field |-> "user", key |-> ids[i], sub |-> sel]],
   depth |-> SelDepth(sel)]

\* mutation { createUser(dto: ..) { sel } }
CreateUserDocument(sel) ==
  [roots |-> <<[field |-> "createUser", key |-> "", sub |-> sel]>>, depth |-> SelDepth(sel)]

\* query { users { sel } }
UsersQuery(sel) ==
  [roots |-> <<[field |-> "users", key |-> "", sub |-> sel]>>, depth |-> SelDepth(sel)]

\* The query documents the requests of the model carry.
Queries ==
  {UserQuery(ThreeUsers, sel) : sel \in {"pp", "pm", "ss"}}
    \cup {UserQuery(OneUser, "sn")}
    \cup {UserQuery(RepeatedAndMissing, sel) : sel \in {"pp", "d4"}}
    \cup {CreateUserDocument("d4")}
    \cup {UsersQuery("pp")}
    \cup {UserQuery(NoId, "pm")}

\* ---------------------------------------------------------- the state
Init ==
  /\ users = {[id |-> u, name |-> "n0"] : u \in {"a", "b", "c"}}
  /\ posts = {[id |-> "p1", authorId |-> "a", title |-> "t0"]}
  /\ profiles = {[id |-> ProfileId("a"), userId |-> "a", memberTypeId |-> "basic"],
                 [id |-> ProfileId("b"), userId |-> "b", memberTypeId |-> "business"]}
  /\ subs = {[subscriberId |-> "a", authorId |-> "b"]}
  /\ cache = [l \in Loaders |-> [k \in AllKeys |-> 0]]
  /\ futures = <<>>
  /\ batches = <<>>
  /\ tasks = <<>>
  /\ waiting = <<>>
  /\ loads = <<>>
  /\ dbLog = <<>>
  /\ resp = <<>>
  /\ req = 0
  /\ muts = 0
  /\ tick = 0
  /\ phase = "idle"
  /\ failures = 0
  /\ verrs = <<>>

OpenBatches == {b \in 1..Len(batches) : batches[b].st = "open"}
FiredBatches == {b \in 1..Len(batches) : batches[b].st = "fired"}

\* Mutant: a new key joins the loader's latest batch until that batch has
\* returned.
CurrentBatchUntilReturn(l) ==
  LET S == {b \in OpenBatches \cup FiredBatches : batches[b].loader = l}
  IN  IF S = {} THEN 0 ELSE CHOOSE b \in S : \A c \in S : c <= b

\* The batch a new key of loader l joins: the loader's batch that has not been
\* dispatched yet, or 0 when a new batch must be started.
CurrentBatch(l) ==
  LET S == {b \in OpenBatches : batches[b].loader = l}
  IN  IF S = {} \/ ~LoaderOptions.batch THEN 0 ELSE CHOOSE b \in S : TRUE

\* The execution context the handler passes to graphql(): the six loaders of
\* the plugin body, with whatever their caches hold.
ContextCache == cache

\* validate(schema, parse(query), [depthLimit(5)]): the rule reports a
\* document that is deeper than the limit.
ValidationErrors(q) == IF q.depth > DepthLimit THEN <<"exceeds maximum operation depth">> ELSE <<>>

\* Mutant: the handler executes the document whatever validate() found.
ExecutesAlways(errors) == TRUE

\* validationErrors.length ? { errors: validationErrors } : await graphql(...)
Executes(errors) == Len(errors) = 0

\* handler: validate with depthLimit(5), then execute with the loaders as context.
Handler(q) ==
  /\ phase = "idle"
  /\ req < MaxRequests
  /\ req - muts < MaxQueries
  /\ req' = req + 1
  /\ tick' = tick + 1
  /\ cache' = ContextCache
  /\ verrs' = ValidationErrors(q)
  /\ IF ~Executes(ValidationErrors(q))
       THEN /\ resp' = <<[field |-> "errors", key |-> "", val |-> Rejected]>>
            /\ UNCHANGED <<tasks, phase>>
       ELSE /\ resp' = <<>>
            /\ tasks' = q.roots
            /\ phase' = "exec"
  /\ UNCHANGED <<storeVars, futures, batches, waiting, loads, dbLog, muts, failures>>

\* RootQueryType.users.resolve: prisma.user.findMany(), no loader.
ResolveUsers ==
  /\ phase = "exec"
  /\ tasks # <<>>
  /\ Head(tasks).field = "users"
  /\ dbLog' = Append(dbLog, [req |-> req, op |-> "findMany", table |-> "user", batch |-> 0])
  /\ waiting' = Append(waiting, [fut |-> 0, field |-> "users", key |-> "",
                                 sub |-> Head(tasks).sub])
  /\ tasks' = Tail(tasks)
  /\ UNCHANGED <<verrs, storeVars, cache, futures, batches, loads, resp, req, muts, tick, phase,
                 failures>>

\* A resolver that calls <loader>.load(key) and awaits the promise:
\* RootQueryType.user, UserType.profile/posts/userSubscribedTo/subscribedToUser,
\* ProfileType.memberType.
ResolveLoad ==
  /\ phase = "exec"
  /\ tasks # <<>>
  /\ Head(tasks).field # "users"
  /\ ValidKey(Head(tasks).key)
  /\ LET t == Head(tasks)
         l == FieldLoader(t.field)
         k == t.key
         hit == LoaderOptions.cache /\ cache[l][k] # 0
         cur == CurrentBatch(l)
         b == IF cur # 0 THEN cur ELSE Len(batches) + 1
         f == IF hit THEN cache[l][k] ELSE Len(futures) + 1
         fv == IF hit THEN futures[f].val ELSE Pending
     IN  /\ loads' = Append(loads, [req |-> req, field |-> t.field, loader |-> l,
                                    key |-> k, fut |-> f,
                                    hit |-> hit, batch |-> IF hit THEN 0 ELSE b,
                                    tick |-> tick])
         /\ IF hit
              THEN UNCHANGED <<futures, batches, cache>>
              ELSE /\ futures' = Append(futures,
                        [loader |-> l, key |-> k, batch |-> b, req |-> req,
                         idx |-> IF cur # 0 THEN Len(batches[b].keys) + 1 ELSE 1,
                         val |-> Pending])
                   /\ batches' =
                        IF cur # 0
                          THEN [batches EXCEPT ![b].keys = Append(@, k)]
                          ELSE Append(batches, [loader |-> l, keys |-> <<k>>, st |-> "open",
                                                req |-> req, tick |-> tick, calls |-> 0,
                                                values |-> <<>>, dbError |-> FALSE])
                   /\ cache' = IF LoaderOptions.cache
                                 THEN [cache EXCEPT ![l][k] = f] ELSE cache
         /\ IF fv.kind = "pending"
              THEN /\ waiting' = Append(waiting, [fut |-> f, field |-> t.field,
                                                  key |-> k, sub |-> t.sub])
                   /\ tasks' = Tail(tasks)
                   /\ UNCHANGED resp
              ELSE /\ resp' = Append(resp, [field |-> t.field, key |-> k, val |-> fv])
                   /\ tasks' = Tail(tasks) \o ChildTasks(t.sub, fv)
                   /\ UNCHANGED waiting
  /\ UNCHANGED <<verrs, storeVars, dbLog, req, muts, tick, phase, failures>>

\* The same resolvers when load(key) throws: the async resolver's promise is
\* rejected, the field is an error, and the loader has recorded nothing.
ResolveLoadThrows ==
  /\ phase = "exec"
  /\ tasks # <<>>
  /\ Head(tasks).field # "users"
  /\ ~ValidKey(Head(tasks).key)
  /\ resp' = Append(resp, [field |-> Head(tasks).field, key |-> Head(tasks).key,
                           val |-> LoadTypeError])
  /\ tasks' = Tail(tasks)
  /\ UNCHANGED <<verrs, storeVars, cache, futures, batches, waiting, loads, dbLog, req, muts,
                 tick, phase, failures>>

\* The loaders' scheduled dispatches: they run once the synchronous pass and
\* its promise jobs are over, in the order the batches were opened.  Each
\* calls the loader's batch function, which issues its query.
DispatchBatches ==
  /\ phase = "exec"
  /\ tasks = <<>>
  /\ OpenBatches # {}
  /\ batches' = [b \in 1..Len(batches) |->
                   IF b \in OpenBatches
                     THEN [batches[b] EXCEPT !.st = "fired", !.calls = @ + 1]
                     ELSE batches[b]]
  /\ tick' = tick + 1
  /\ dbLog' = dbLog \o Flatten([b \in 1..Len(batches) |->
                 IF b \in OpenBatches
                   THEN LET qs == BatchQueries(batches[b].loader, batches[b].keys)
                        IN  [i \in 1..Len(qs) |->
                               [req |-> req, op |-> qs[i].op, table |-> qs[i].table,
                                batch |-> b]]
                   ELSE <<>>])
  /\ UNCHANGED <<verrs, storeVars, cache, futures, tasks, waiting, loads, resp, req, muts, phase,
                 failures>>

\* What a query of the data store may answer: the rows in any order, or an error.
Answers(rows) ==
  {[ok |-> TRUE, rows |-> p] : p \in Perms(rows)}
    \cup (IF failures < MaxFailures THEN {[ok |-> FALSE, rows |-> <<>>]} ELSE {})

\* The resolvers an answer wakes, in the order they suspended, each with the
\* value its await yields: the field is answered and the resolvers below it
\* are called.
Resume(woken, vals) ==
  /\ resp' = resp \o [i \in 1..Len(woken) |->
                        [field |-> woken[i].field, key |-> woken[i].key, val |-> vals[i]]]
  /\ tasks' = Flatten([i \in 1..Len(woken) |-> ChildTasks(woken[i].sub, vals[i])])

\* The query of a dispatched batch answers: the batch function returns its
\* values (or rejects), and the loader settles the batch's promises.  A call
\* that rejects, or returns an array of another length than the keys, rejects
\* every promise of the batch and drops its keys from the cache.
BatchReturn(b) ==
  /\ phase = "exec"
  /\ tasks = <<>>
  /\ OpenBatches = {}
  /\ b \in FiredBatches
  /\ \E res \in Answers(TableRows(batches[b].loader)) :
       LET l == batches[b].loader
           keys == batches[b].keys
           out == BatchCall(l, keys, res)
           good == out.ok /\ Len(out.values) = Len(keys)
           settled(f) == IF good THEN out.values[futures[f].idx] ELSE Rejected
           mine(w) == w.fut # 0 /\ futures[w.fut].batch = b
       IN  /\ futures' = [f \in 1..Len(futures) |->
                            IF futures[f].batch = b
                              THEN [futures[f] EXCEPT !.val = settled(f)]
                              ELSE futures[f]]
           /\ batches' = [batches EXCEPT ![b].st = IF good THEN "done" ELSE "failed",
                                         ![b].values = out.values,
                                         ![b].dbError = ~res.ok]
           /\ cache' = IF good THEN cache
                       ELSE [cache EXCEPT ![l] =
                               [k \in AllKeys |-> IF k \in Range(keys) THEN 0 ELSE @[k]]]
           /\ failures' = IF res.ok THEN failures ELSE failures + 1
           /\ tick' = tick + 1
           /\ waiting' = SelectSeq(waiting, LAMBDA w : ~mine(w))
           /\ LET woken == SelectSeq(waiting, mine)
              IN  Resume(woken, [i \in 1..Len(woken) |-> settled(woken[i].fut)])
  /\ UNCHANGED <<verrs, storeVars, loads, dbLog, req, muts, phase>>

\* The findMany of RootQueryType.users answers.
DirectReturn ==
  /\ phase = "exec"
  /\ tasks = <<>>
  /\ OpenBatches = {}
  /\ \E i \in 1..Len(waiting) :
       /\ waiting[i].fut = 0
       /\ \E res \in Answers(users) :
            LET val == IF res.ok THEN List(res.rows) ELSE Rejected
            IN  /\ failures' = IF res.ok THEN failures ELSE failures + 1
                /\ tick' = tick + 1
                /\ waiting' = [j \in 1..(Len(waiting) - 1) |->
                                 IF j < i THEN waiting[j] ELSE waiting[j + 1]]
                /\ Resume(<<waiting[i]>>, <<val>>)
  /\ UNCHANGED <<verrs, storeVars, cache, futures, batches, loads, dbLog, req, muts, phase>>

\* graphql() returns once no resolver is left running or suspended.
Respond ==
  /\ phase = "exec"
  /\ tasks = <<>>
  /\ waiting = <<>>
  /\ OpenBatches = {}
  /\ FiredBatches = {}
  /\ phase' = "idle"
  /\ UNCHANGED <<verrs, storeVars, cache, futures, batches, tasks, waiting, loads, dbLog,
                 resp, req, muts, tick, failures>>

\* ------------------------------------------------------ the mutations
\* A request holding one mutation field: the handler validates it (depth 1)
\* and the resolver performs its one write, which the data store accepts
\* (ok) or refuses (a missing record, a duplicate, a dangling reference).
\* Mutant: a mutation resolver that ends with clearAll() on every loader.
AfterMutationCleared(c) == [l \in Loaders |-> [k \in AllKeys |-> 0]]

\* The loaders' caches once a mutation resolver has run: the resolvers of
\* RootMutationType take (_, args), no context, and name no loader.
AfterMutation(c) == c

MutationRequest(field, op, table, key, ok, val) ==
  /\ phase = "idle"
  /\ req < MaxRequests
  /\ muts < MaxMutations
  /\ req' = req + 1
  /\ muts' = muts + 1
  /\ cache' = AfterMutation(ContextCache)
  /\ verrs' = <<>>
  /\ dbLog' = Append(dbLog, [req |-> req + 1, op |-> op, table |-> table, batch |-> 0])
  /\ resp' = <<[field |-> field, key |-> key, val |-> IF ok THEN val ELSE Rejected]>>
  /\ UNCHANGED <<futures, batches, tasks, waiting, loads, tick, phase, failures>>

HasUser(id) == \E u \in users : u.id = id

createUser(name) ==
  LET free == UserIds \ {u.id : u \in users}
      id == CHOOSE x \in free : TRUE
      row == [id |-> id, name |-> name]
  IN  /\ free # {}
      /\ MutationRequest("createUser", "create", "user", id, TRUE, Row(row))
      /\ users' = users \cup {row}
      /\ UNCHANGED <<posts, profiles, subs>>

createPost(authorId, title) ==
  LET free == PostIds \ {p.id : p \in posts}
      id == CHOOSE x \in free : TRUE
      row == [id |-> id, authorId |-> authorId, title |-> title]
      ok == HasUser(authorId)
  IN  /\ free # {}
      /\ MutationRequest("createPost", "create", "post", id, ok, Row(row))
      /\ posts' = IF ok THEN posts \cup {row} ELSE posts
      /\ UNCHANGED <<users, profiles, subs>>

createProfile(userId, memberTypeId) ==
  LET row == [id |-> ProfileId(userId), userId |-> userId, memberTypeId |-> memberTypeId]
      ok == HasUser(userId) /\ ~\E p \in profiles : p.userId = userId
  IN  /\ MutationRequest("createProfile", "create", "profile", row.id, ok, Row(row))
      /\ profiles' = IF ok THEN profiles \cup {row} ELSE profiles
      /\ UNCHANGED <<users, posts, subs>>

\* prisma.user.delete: the user's posts, profile and subscriptions go with it.
deleteUser(id) ==
  LET ok == HasUser(id)
  IN  /\ MutationRequest("deleteUser", "delete", "user", id, ok, Undefined)
      /\ users' = {u \in users : u.id # id}
      /\ posts' = {p \in posts : p.authorId # id}
      /\ profiles' = {p \in profiles : p.userId # id}
      /\ subs' = {s \in subs : s.subscriberId # id /\ s.authorId # id}

deletePost(id) ==
  LET ok == \E p \in posts : p.id = id
  IN  /\ MutationRequest("deletePost", "delete", "post", id, ok, Undefined)
      /\ posts' = {p \in posts : p.id # id}
      /\ UNCHANGED <<users, profiles, subs>>

deleteProfile(id) ==
  LET ok == \E p \in profiles : p.id = id
  IN  /\ MutationRequest("deleteProfile", "delete", "profile", id, ok, Undefined)
      /\ profiles' = {p \in profiles : p.id # id}
      /\ UNCHANGED <<users, posts, subs>>

changeUser(id, name) ==
  LET ok == HasUser(id)
      row == [id |-> id, name |-> name]
  IN  /\ MutationRequest("changeUser", "update", "user", id, ok, Row(row))
      /\ users' = {IF u.id = id THEN row ELSE u : u \in users}
      /\ UNCHANGED <<posts, profiles, subs>>

changePost(id, title) ==
  LET ok == \E p \in posts : p.id = id
      new(p) == [p EXCEPT !.title = title]
  IN  /\ MutationRequest("changePost", "update", "post", id, ok,
                         Row([id |-> id, title |-> title]))
      /\ posts' = {IF p.id = id THEN new(p) ELSE p : p \in posts}
      /\ UNCHANGED <<users, profiles, subs>>

changeProfile(id, memberTypeId) ==
  LET ok == \E p \in profiles : p.id = id
      new(p) == [p EXCEPT !.memberTypeId = memberTypeId]
  IN  /\ MutationRequest("changeProfile", "update", "profile", id, ok,
                         Row([id |-> id, memberTypeId |-> memberTypeId]))
      /\ profiles' = {IF p.id = id THEN new(p) ELSE p : p \in profiles}
      /\ UNCHANGED <<users, posts, subs>>

subscribeTo(userId, authorId) ==
  LET row == [subscriberId |-> userId, authorId |-> authorId]
      ok == HasUser(userId) /\ HasUser(authorId) /\ row \notin subs
  IN  /\ MutationRequest("subscribeTo", "create", "subscribersOnAuthors", userId, ok,
                         Row(row))
      /\ subs' = IF ok THEN subs \cup {row} ELSE subs
      /\ UNCHANGED <<users, posts, profiles>>

\* deleteMany: removes what matches, and accepts that nothing does.
unsubscribeFrom(userId, authorId) ==
  /\ MutationRequest("unsubscribeFrom", "deleteMany", "subscribersOnAuthors", userId,
                     TRUE, Undefined)
  /\ subs' = subs \ {[subscriberId |-> userId, authorId |-> authorId]}
  /\ UNCHANGED <<users, posts, profiles>>

\* The arguments the mutation requests of the model carry.
Mutation ==
  \/ createUser("n1")
  \/ createPost("b", "t0")
  \/ createProfile("c", "business")
  \/ \E u \in {"a", MissingId} : deleteUser(u)
  \/ deletePost("p1")
  \/ deleteProfile(ProfileId("a"))
  \/ changeUser("a", "n1")
  \/ changePost("p1", "t1")
  \/ changeProfile(ProfileId("a"), "business")
  \/ subscribeTo("c", "a")
  \/ unsubscribeFrom("a", "b")

Next ==
  \/ \E q \in Queries : Handler(q)
  \/ ResolveUsers
  \/ ResolveLoad
  \/ ResolveLoadThrows
  \/ DispatchBatches
  \/ \E b \in 1..Len(batches) : BatchReturn(b)
  \/ DirectReturn
  \/ Respond
  \/ Mutation

Spec == Init /\ [][Next]_vars

\* ---------------------------------------- the direct (pre-loader) queries
\* What the resolvers read from the data store one parent at a time, before
\* the loaders were introduced.
UserRow(u) == [id |-> u.id, name |-> u.name]

\* findUnique: the record, or null.
FindUnique(rows, field, key) ==
  IF \E r \in rows : r[field] = key
    THEN Row(CHOOSE r \in rows : r[field] = key)
    ELSE Null

DirectUser(id) == FindUnique(users, "id", id)
DirectProfile(id) == FindUnique(profiles, "userId", id)
DirectMemberType(id) == FindUnique(MemberTypes, "id", id)
DirectPosts(id) == {p \in posts : p.authorId = id}
DirectUserSubscribedTo(id) ==
  {u \in users : \E s \in subs : s.authorId = u.id /\ s.subscriberId = id}
DirectSubscribedToUser(id) ==
  {u \in users : \E s \in subs : s.subscriberId = u.id /\ s.authorId = id}

\* Whether a loader's value for key k is what the data store holds for k now
\* (a list in any order, without repeats).
Current(l, k, val) ==
  CASE l = "userLoader" -> Completed(val) = DirectUser(k)
    [] l = "profileLoader" -> Completed(val) = DirectProfile(k)
    [] l = "memberTypeLoader" -> Completed(val) = DirectMemberType(k)
    [] l = "postLoader" ->
         /\ val.kind = "list"
         /\ Range(val.rows) = DirectPosts(k)
         /\ Len(val.rows) = Cardinality(DirectPosts(k))
    [] l = "userSubscribedToLoader" ->
         /\ val.kind = "list"
         /\ {UserRow(u) : u \in Range(val.rows)} = DirectUserSubscribedTo(k)
         /\ Len(val.rows) = Cardinality(DirectUserSubscribedTo(k))
    [] OTHER ->
         /\ val.kind = "list"
         /\ {UserRow(u) : u \in Range(val.rows)} = DirectSubscribedToUser(k)
         /\ Len(val.rows) = Cardinality(DirectSubscribedToUser(k))

LoaderFields == {"user", "profile", "posts", "memberType", "userSubscribedTo",
                 "subscribedToUser"}

\* ------------------------------------------------------------- claims

\* C1: every request gets a fresh loader registry, so no load() of one request
\* is answered from a cache entry that another request created.
C1_FreshRegistryPerRequest ==
  \A i \in 1..Len(loads) : futures[loads[i].fut].req = loads[i].req

\* C2: in a request that starts after a mutation has completed, every
\* user(id) or relationship field that resolves holds the data store's
\* current state for its key.
C2_NoStaleRead ==
  (muts > 0 /\ phase = "exec") =>
    \A i \in 1..Len(resp) :
      (resp[i].field \in LoaderFields /\ resp[i].val.kind # "error")
        => Current(FieldLoader(resp[i].field), resp[i].key, resp[i].val)

NoRepeats(keys) == \A i, j \in 1..Len(keys) : keys[i] = keys[j] => i = j
SameKey(x, y) == x.loader = y.loader /\ x.key = y.key
FuturesOf(b) == {f \in 1..Len(futures) : futures[f].batch = b}

\* C3: the load(k) calls made on one loader before its batch fires get the
\* same future for the same key, all their new keys go into one batch, and
\* that batch calls the bulk-fetch function once, each distinct key once.
C3_CoalescedLoads ==
  /\ \A i, j \in 1..Len(loads) :
       (SameKey(loads[i], loads[j]) /\ loads[i].tick = loads[j].tick)
         => loads[i].fut = loads[j].fut
  /\ \A i, j \in 1..Len(loads) :
       (loads[i].loader = loads[j].loader /\ loads[i].tick = loads[j].tick
          /\ ~loads[i].hit /\ ~loads[j].hit)
         => loads[i].batch = loads[j].batch
  /\ \A b \in 1..Len(batches) :
       /\ NoRepeats(batches[b].keys)
       /\ batches[b].calls = IF batches[b].st = "open" THEN 0 ELSE 1

\* A batch of three keys has fired after four loads of one pass, two of them
\* for the same key.
C3_Witness ==
  \E b \in 1..Len(batches) :
    /\ batches[b].st # "open"
    /\ Len(batches[b].keys) = 3
    /\ \E i, j \in 1..Len(loads) :
         /\ i < j
         /\ SameKey(loads[i], loads[j])
         /\ loads[i].batch = b
         /\ loads[j].hit
         /\ loads[j].tick = batches[b].tick

\* C4: a batch's values are as many as its keys and the i-th value is the one
\* of the i-th key, in whatever order the query returned the rows; each
\* promise gets the value of its own key, and two loads of one key in one
\* pass resolve to identical values.
C4_ResultsByKey ==
  phase = "exec" =>
    /\ \A b \in 1..Len(batches) :
         (batches[b].req = req /\ batches[b].st = "done") =>
           /\ Len(batches[b].values) = Len(batches[b].keys)
           /\ \A i \in 1..Len(batches[b].keys) :
                Current(batches[b].loader, batches[b].keys[i], batches[b].values[i])
           /\ \A f \in FuturesOf(b) :
                /\ futures[f].key = batches[b].keys[futures[f].idx]
                /\ futures[f].val = batches[b].values[futures[f].idx]
    /\ \A i, j \in 1..Len(loads) :
         (SameKey(loads[i], loads[j]) /\ loads[i].tick = loads[j].tick)
           => futures[loads[i].fut].val = futures[loads[j].fut].val

\* user(a), user(b), user(a), user(z) were loaded in one pass: the batch
\* <<a, b, z>> is done, both user(a) fields hold a's row, and a batch of
\* a group loader with two keys is done as well.
C4_Witness ==
  /\ phase = "exec"
  /\ \E b \in 1..Len(batches) :
       /\ batches[b].req = req
       /\ batches[b].st = "done"
       /\ batches[b].loader = "userLoader"
       /\ batches[b].keys = <<"a", "b", MissingId>>
  /\ \E b \in 1..Len(batches) :
       /\ batches[b].req = req
       /\ batches[b].st = "done"
       /\ batches[b].loader = "postLoader"
       /\ Len(batches[b].keys) = 2
  /\ Len(resp) >= 3
  /\ resp[1].field = "user" /\ resp[1].key = "a" /\ resp[1].val.kind = "row"
  /\ resp[3].field = "user" /\ resp[3].key = "a" /\ resp[3].val = resp[1].val

GroupRows(l, k) ==
  CASE l = "postLoader" -> DirectPosts(k)
    [] l = "userSubscribedToLoader" -> DirectUserSubscribedTo(k)
    [] OTHER -> DirectSubscribedToUser(k)

DbErrors == {b \in 1..Len(batches) : batches[b].dbError}

\* C6: postLoader and the two subscription loaders resolve a key without
\* matching rows to an empty sequence: a settled load of theirs is a list
\* (empty when the store holds nothing for the key), and is an error only
\* when the batch's query itself failed; their fields are never null.
C6_EmptyGroup ==
  /\ \A f \in 1..Len(futures) :
       (futures[f].loader \in GroupLoaders /\ futures[f].val.kind # "pending") =>
         IF batches[futures[f].batch].dbError
           THEN futures[f].val = Rejected
           ELSE /\ futures[f].val.kind = "list"
                /\ (phase = "exec" /\ futures[f].req = req
                      /\ GroupRows(futures[f].loader, futures[f].key) = {})
                     => futures[f].val.rows = <<>>
  /\ \A i \in 1..Len(resp) :
       resp[i].field \in {"posts", "userSubscribedTo", "subscribedToUser"}
         => resp[i].val.kind \in {"list", "error"}

\* posts of user b, who has written none, resolved to the empty list, in
\* the batch that gave user a's post; a subscription loader has resolved a
\* key to the empty list as well.
C6_Witness ==
  /\ phase = "exec"
  /\ DirectPosts("b") = {}
  /\ \E i \in 1..Len(resp) :
       resp[i].field = "posts" /\ resp[i].key = "b" /\ resp[i].val = List(<<>>)
  /\ \E i \in 1..Len(resp) :
       resp[i].field = "posts" /\ resp[i].key = "a" /\ resp[i].val.kind = "list"
         /\ resp[i].val.rows # <<>>
  /\ \E f \in 1..Len(futures) :
       futures[f].loader = "userSubscribedToLoader" /\ futures[f].val = List(<<>>)

\* C7: userLoader, profileLoader and memberTypeLoader resolve a key without a
\* row to undefined and the other keys of the batch to their rows; a batch
\* is rejected only when its query failed, and such a field is an error
\* only then (otherwise null), leaving aside a load() without a key.
C7_MissingPrimaryKey ==
  /\ \A b \in 1..Len(batches) : batches[b].st = "failed" => batches[b].dbError
  /\ phase = "exec" =>
       \A f \in 1..Len(futures) :
         (futures[f].req = req /\ futures[f].loader \in PrimaryKeyLoaders
            /\ batches[futures[f].batch].st = "done") =>
           LET stored == CASE futures[f].loader = "userLoader" -> DirectUser(futures[f].key)
                           [] futures[f].loader = "profileLoader" ->
                                DirectProfile(futures[f].key)
                           [] OTHER -> DirectMemberType(futures[f].key)
           IN  futures[f].val = IF stored = Null THEN Undefined ELSE stored
  /\ \A i \in 1..Len(resp) :
       (resp[i].field \in {"user", "profile", "memberType"} /\ resp[i].val.kind = "error"
          /\ resp[i].key # NullKey)
         => DbErrors # {}

\* user(z), for which there is no row, is null beside user(a) and user(b),
\* which hold their rows; profile(c), which does not exist, is null too.
C7_Witness ==
  /\ \E i \in 1..Len(resp) :
       resp[i].field = "user" /\ resp[i].key = MissingId /\ resp[i].val = Undefined
  /\ \E i \in 1..Len(resp) :
       resp[i].field = "user" /\ resp[i].key = "a" /\ resp[i].val.kind = "row"
  /\ \E f \in 1..Len(futures) :
       futures[f].loader = "profileLoader" /\ futures[f].val = Undefined
  /\ DbErrors = {}

\* C8: when the query of a batch fails, every promise of the batch is
\* rejected, none stays pending once its batch has returned, no resolver
\* stays suspended on a settled promise, and each load of the request that
\* was rejected shows as an error of its own field.
C8_BatchFailureRejectsAll ==
  /\ \A b \in DbErrors :
       /\ batches[b].st = "failed"
       /\ \A f \in FuturesOf(b) : futures[f].val = Rejected
  /\ \A f \in 1..Len(futures) :
       futures[f].val.kind = "pending" => batches[futures[f].batch].st \in {"open", "fired"}
  /\ \A i \in 1..Len(waiting) :
       waiting[i].fut # 0 => futures[waiting[i].fut].val.kind = "pending"
  /\ \A i \in 1..Len(loads) :
       (loads[i].req = req /\ futures[loads[i].fut].val = Rejected
          /\ futures[loads[i].fut].req = req)
         => \E r \in 1..Len(resp) :
              /\ resp[r].field = loads[i].field
              /\ resp[r].key = loads[i].key
              /\ resp[r].val = Rejected

\* A batch of three keys failed; the request ended with the users' rows and
\* an error for each of the three fields, and the handler is ready again.
C8_Witness ==
  /\ phase = "idle"
  /\ \E b \in DbErrors :
       /\ batches[b].req = req
       /\ Len(batches[b].keys) = 3
       /\ \A k \in Range(batches[b].keys) :
            \E r \in 1..Len(resp) : resp[r].key = k /\ resp[r].val = Rejected
  /\ \E r \in 1..Len(resp) : resp[r].field = "user" /\ resp[r].val.kind = "row"

BatchesOf(l, r) == {b \in 1..Len(batches) : batches[b].loader = l /\ batches[b].req = r}

\* The last request resolved user(id) for three users and, below each, its
\* profile and its posts, and no query failed.
ThreeUsersResolved ==
  /\ phase = "idle"
  /\ failures = 0
  /\ \A u \in Range(ThreeUsers) :
       /\ \E r \in 1..Len(resp) :
            resp[r].field = "user" /\ resp[r].key = u /\ resp[r].val.kind = "row"
       /\ \E r \in 1..Len(resp) :
            resp[r].field = "profile" /\ resp[r].key = u /\ resp[r].val.kind # "error"
       /\ \E r \in 1..Len(resp) :
            resp[r].field = "posts" /\ resp[r].key = u /\ resp[r].val.kind # "error"

\* C9: a query for 3 users, each with its profile and posts, triggers exactly
\* one user batch call, one profile batch call and one post batch call.
C9_OneBatchPerRelation ==
  ThreeUsersResolved =>
    /\ Cardinality(BatchesOf("userLoader", req)) = 1
    /\ Cardinality(BatchesOf("profileLoader", req)) = 1
    /\ Cardinality(BatchesOf("postLoader", req)) = 1

QueriesOf(b) == {i \in 1..Len(dbLog) : dbLog[i].batch = b}

\* C10: a batch costs one query of the data store, a findMany of the
\* loader's table, however many keys it holds; a batch that has not been
\* dispatched has cost none.
C10_OneQueryPerBatch ==
  /\ \A b \in 1..Len(batches) :
       Cardinality(QueriesOf(b)) = IF batches[b].st = "open" THEN 0 ELSE 1
  /\ \A i \in 1..Len(dbLog) :
       dbLog[i].batch # 0 =>
         /\ dbLog[i].op = "findMany"
         /\ dbLog[i].table = TableOf(batches[dbLog[i].batch].loader)

\* Both subscription loaders have returned a batch of three keys.
C10_Witness ==
  \A l \in {"userSubscribedToLoader", "subscribedToUserLoader"} :
    \E b \in 1..Len(batches) :
      /\ batches[b].loader = l
      /\ batches[b].st = "done"
      /\ Len(batches[b].keys) = 3
      /\ Cardinality(QueriesOf(b)) = 1

\* C11: a load() with a null or undefined key (user queried without an id)
\* throws at the call: the key enters no batch, no cache and no future, so
\* the bulk-fetch function never sees it; the field that made the call is
\* an error, no other field gets that error, and the sibling user fields of
\* the query are answered (with an error of their own only when their
\* batch's query failed).
C11_MalformedKeyFailsFast ==
  /\ \A b \in 1..Len(batches) : NullKey \notin Range(batches[b].keys)
  /\ \A l \in Loaders : cache[l][NullKey] = 0
  /\ \A f \in 1..Len(futures) : futures[f].key # NullKey
  /\ \A i \in 1..Len(loads) : loads[i].key # NullKey
  /\ \A i \in 1..Len(resp) : resp[i].key = NullKey <=> resp[i].val = LoadTypeError
  /\ (phase = "idle" /\ \E i \in 1..Len(resp) : resp[i].key = NullKey) =>
       \A k \in Range(NoId) \ {NullKey} :
         \E r \in 1..Len(resp) :
           /\ resp[r].field = "user"
           /\ resp[r].key = k
           /\ resp[r].val.kind = "error" =>
                \E b \in DbErrors : batches[b].req = req /\ k \in Range(batches[b].keys)

\* The query { user(a) user user(b) }, each with profile { memberType }, has
\* been answered in a first request: user without id is an error, users a
\* and b hold their rows, and below them profiles and member types resolved.
C11_Witness ==
  /\ phase = "idle"
  /\ req = 1
  /\ \E i \in 1..Len(resp) : resp[i].field = "user" /\ resp[i].val = LoadTypeError
  /\ \A k \in {"a", "b"} :
       \E r \in 1..Len(resp) :
         resp[r].field = "user" /\ resp[r].key = k /\ resp[r].val.kind = "row"
  /\ \E r \in 1..Len(resp) : resp[r].field = "memberType" /\ resp[r].val.kind = "row"
  /\ \E b \in 1..Len(batches) :
       batches[b].loader = "userLoader" /\ batches[b].keys = <<"a", "b">>

\* A batch opened in an earlier turn of the event loop than the one a load is
\* made in has fired by then: the dispatch is the first thing to follow the
\* pass that opened it.
FiredBefore(b, i) == batches[b].loader = loads[i].loader /\ batches[b].tick < loads[i].tick

\* C12: a key that load() is given after the loader's batch has fired, and
\* that the cache does not hold, goes into a new batch: not into a batch of
\* the loader that fired before the call, nor is its promise settled by one;
\* the batch it went into holds the key, is dispatched with one call of the
\* bulk-fetch function, and has returned when the request ends.
C12_NewBatchAfterFire ==
  /\ \A i \in 1..Len(loads) :
       ~loads[i].hit =>
         LET b == loads[i].batch
         IN  /\ futures[loads[i].fut].batch = b
             /\ \A c \in 1..Len(batches) : FiredBefore(c, i) => c # b
             /\ batches[b].tick = loads[i].tick
             /\ batches[b].keys[futures[loads[i].fut].idx] = loads[i].key
             /\ batches[b].st # "open" => batches[b].calls = 1
             /\ (phase = "idle" \/ loads[i].req < req)
                  => batches[b].st \in {"done", "failed"}
  /\ \A f \in 1..Len(futures) :
       (futures[f].val.kind \notin {"pending", "error"}) =>
         /\ batches[futures[f].batch].st = "done"
         /\ futures[f].val = batches[futures[f].batch].values[futures[f].idx]

\* userSubscribedToLoader.load(a) was called, below subscribedToUser of user
\* b, while the loader's batch for key b was in flight: the key went into a
\* second batch, which has returned its value while the first is still out.
C12_Witness ==
  \E b1, b2 \in 1..Len(batches) :
    /\ b1 < b2
    /\ batches[b1].loader = "userSubscribedToLoader"
    /\ batches[b2].loader = "userSubscribedToLoader"
    /\ batches[b1].req = batches[b2].req
    /\ batches[b1].st = "fired"
    /\ batches[b2].st = "done"
    /\ batches[b2].keys = <<"a">>
    /\ \E i \in 1..Len(loads) :
         /\ loads[i].batch = b2
         /\ FiredBefore(b1, i)
         /\ futures[loads[i].fut].val.kind = "list"

SameRows(val, S) ==
  /\ val.kind = "list"
  /\ NoRepeats(val.rows)
  /\ Range(val.rows) = S

SameUsers(val, S) ==
  /\ val.kind = "list"
  /\ NoRepeats(val.rows)
  /\ {UserRow(u) : u \in Range(val.rows)} = S

\* C13: while a request runs the data store does not change, and what a
\* relationship resolver gets from load(parent.id) of a batch of that
\* request is what the resolver of the version without loaders reads with
\* its own query: the profile with userId = id (null when there is none),
\* the posts with authorId = id, the users id subscribes to, the users
\* subscribed to id (the lists as the same rows, in whatever order).
C13_LoaderEqualsDirect ==
  phase = "exec" =>
    \A i \in 1..Len(loads) :
      LET id == loads[i].key
          val == futures[loads[i].fut].val
      IN  (loads[i].req = req /\ futures[loads[i].fut].req = req
             /\ val.kind \notin {"pending", "error"}) =>
            CASE loads[i].field = "profile" -> Completed(val) = DirectProfile(id)
              [] loads[i].field = "posts" -> SameRows(val, DirectPosts(id))
              [] loads[i].field = "userSubscribedTo" ->
                   SameUsers(val, DirectUserSubscribedTo(id))
              [] loads[i].field = "subscribedToUser" ->
                   SameUsers(val, DirectSubscribedToUser(id))
              [] OTHER -> TRUE

\* After a mutation, a request has loaded userSubscribedTo and
\* subscribedToUser for three users in one batch each, with a user that
\* has a subscription and one that has none on either side; an earlier
\* request loaded a profile that exists, one that does not, and posts.
C13_Witness ==
  /\ phase = "exec"
  /\ muts = 1
  /\ \A fld \in {"userSubscribedTo", "subscribedToUser"} :
       /\ \E i \in 1..Len(loads) :
            /\ loads[i].req = req /\ loads[i].field = fld
            /\ futures[loads[i].fut].req = req
            /\ futures[loads[i].fut].val.kind = "list"
            /\ futures[loads[i].fut].val.rows # <<>>
            /\ Len(batches[futures[loads[i].fut].batch].keys) = 3
       /\ \E i \in 1..Len(loads) :
            /\ loads[i].req = req /\ loads[i].field = fld
            /\ futures[loads[i].fut].val = List(<<>>)
  /\ \E f \in 1..Len(futures) :
       futures[f].loader = "profileLoader" /\ futures[f].val.kind = "row"
  /\ \E f \in 1..Len(futures) :
       futures[f].loader = "profileLoader" /\ futures[f].val = Undefined
  /\ \E f \in 1..Len(futures) :
       futures[f].loader = "postLoader" /\ futures[f].val.kind = "list"
         /\ futures[f].val.rows # <<>>

\* C14: a request whose document validate() reports on (it is deeper than
\* the limit of 5) is answered with the errors alone and is not executed:
\* no resolver is called or left suspended, the data store is neither read
\* nor written, and no loader gets or loses a cache entry, a promise or a
\* batch.
C14_InvalidQueryNotExecuted ==
  [][(req' # req /\ verrs' # <<>>) =>
       /\ resp' = <<[field |-> "errors", key |-> "", val |-> Rejected]>>
       /\ phase' = "idle"
       /\ tasks' = <<>> /\ waiting' = <<>>
       /\ UNCHANGED <<storeVars, dbLog, cache, futures, batches, loads, muts, failures>>]_vars

\* A document of depth 6 was refused after an earlier request had run and
\* had filled caches and read the data store.
C14_Witness ==
  /\ verrs # <<>>
  /\ phase = "idle"
  /\ req >= 2
  /\ resp = <<[field |-> "errors", key |-> "", val |-> Rejected]>>
  /\ dbLog # <<>>
  /\ \E l \in Loaders, k \in AllKeys : cache[l][k] # 0

MutationFields == {"createUser", "createPost", "createProfile", "deleteUser", "deletePost",
                   "deleteProfile", "changeUser", "changePost", "changeProfile",
                   "subscribeTo", "unsubscribeFrom"}
WriteOps == {"create", "update", "delete", "deleteMany"}

\* C15: a mutation request performs one data store operation, a write, and
\* touches nothing of the loaders: their caches, promises and batches are
\* what they were, no load() is made and no resolver of a loader runs.
C15_MutationsWriteOnly ==
  [][muts' # muts =>
       /\ Len(dbLog') = Len(dbLog) + 1
       /\ SubSeq(dbLog', 1, Len(dbLog)) = dbLog
       /\ dbLog'[Len(dbLog')].op \in WriteOps
       /\ dbLog'[Len(dbLog')].req = req'
       /\ Len(resp') = 1
       /\ resp'[1].field \in MutationFields
       /\ UNCHANGED <<cache, futures, batches, loads, tasks, waiting, phase>>]_vars

\* deleteUser(a) has removed user a from the data store while userLoader
\* still holds the entry an earlier request cached for a.
C15_Witness ==
  /\ phase = "idle"
  /\ muts = 1
  /\ Len(resp) = 1
  /\ resp[1].field = "deleteUser"
  /\ resp[1].val # Rejected
  /\ ~HasUser("a")
  /\ cache["userLoader"]["a"] # 0
  /\ futures[cache["userLoader"]["a"]].val.kind = "row"
  /\ dbLog[Len(dbLog)].op = "delete"

====
